---- MODULE Spec2Model ----
(***************************************************************************)
(* A model of the three batch scripts of the recipe site:                  *)
(*   scripts/create-responsive-images.py  (SpecResp)                       *)
(*   convert-to-webp.py                   (SpecConv, FairConv)             *)
(*   scripts/generate-sitemap.py          (SpecSitemap)                    *)
(* The scripts share nothing, so each has its own initial condition and    *)
(* next-state relation over its own variables; the variables of the other  *)
(* two scripts stay at their idle values.                                  *)
(***************************************************************************)
EXTENDS Integers, Sequences, FiniteSets, TLC

VARIABLES
    \* ---- create-responsive-images.py ----
    rpc,              \* position in the script
    readable,         \* whether Image.open(input_path) succeeds
    original_width, original_height,
    image_type,       \* the profile name passed by the caller
    dir_exists,       \* images/recipes/<recipe_name> exists on disk
    dir_created,      \* this run's os.makedirs created it
    idx,              \* position of the loop in sizes[image_type]
    calc,             \* the last iteration's scale and crop computation
    files,            \* variant files on disk, with their pixel size
    markup,           \* what generate_picture_element returned
    \* ---- convert-to-webp.py ----
    cpc, dir_present, jpgs, webps, now, run, jpg_files, pos,
    converted_count, log, summary,
    \* ---- generate-sitemap.py ----
    spc, json_state, recipes, ridx, entries, sitemap_file

respVars == <<rpc, readable, original_width, original_height, image_type,
              dir_exists, dir_created, idx, calc, files, markup>>
convVars == <<cpc, dir_present, jpgs, webps, now, run, jpg_files, pos,
              converted_count, log, summary>>
siteVars == <<spc, json_state, recipes, ridx, entries, sitemap_file>>
vars == <<respVars, convVars, siteVars>>

(***************************************************************************)
(* Bounds of the model.                                                    *)
(***************************************************************************)
MaxDim == 24          \* source images of every size 1..MaxDim in each direction
MaxTime == 2          \* modification times and the clock range over 1..MaxTime
MaxRecipes == 2       \* recipes in data/recipes.json

\* Further source sizes: the ones whose float quotient rounds below the exact
\* one (75, 91), photo-sized ones and the spec's 1000x800 example.
ExtraDims == {75, 91, 800, 1000, 1600, 2000, 3000}
SourceDims == (1..MaxDim) \cup ExtraDims

(***************************************************************************)
(* Python float arithmetic (IEEE-754 binary64, round to nearest even) on   *)
(* the quotients the script computes, in integers.  fl(a/b) is written     *)
(* a/b + err/(b * 2^k), k = j + 52, where b <= a * 2^j < 2b.               *)
(***************************************************************************)
RECURSIVE Pow2(_)
Pow2(n) == IF n = 0 THEN 1 ELSE 2 * Pow2(n - 1)

RECURSIVE ExpDown(_, _, _)
ExpDown(a, b, s) == IF a < 2 * b * Pow2(s) THEN s ELSE ExpDown(a, b, s + 1)

RECURSIVE ExpUp(_, _, _)
ExpUp(a, b, j) == IF a * Pow2(j) >= b THEN j ELSE ExpUp(a, b, j + 1)

\* The binary exponent of a/b: the j with b <= a * 2^j < 2b.
BinExp(a, b) == IF a >= b THEN 0 - ExpDown(a, b, 0) ELSE ExpUp(a, b, 0)

\* 2^k mod b, by repeated squaring
RECURSIVE Pow2Mod(_, _)
Pow2Mod(k, b) ==
    IF k = 0 THEN 1 % b
    ELSE LET h == Pow2Mod(k \div 2, b)
         IN  (((h * h) % b) * (IF k % 2 = 1 THEN 2 ELSE 1)) % b

\* (x * 2^k) mod b
MulPow2Mod(x, k, b) == ((x % b) * Pow2Mod(k, b)) % b

\* The signed rounding error of fl(a/b), in units of 1/(b * 2^k).
RoundErr(a, b) ==
    LET k == BinExp(a, b) + 52
        rem == MulPow2Mod(a, k, b)
        qodd == MulPow2Mod(a, k, 2 * b) >= b
    IN  IF 2 * rem < b THEN 0 - rem
        ELSE IF 2 * rem > b THEN b - rem
        ELSE IF qodd THEN b - rem ELSE 0 - rem

RECURSIVE Log2Floor(_)
Log2Floor(n) == IF n < 2 THEN 0 ELSE 1 + Log2Floor(n \div 2)

\* Half the gap between the integer n and the double just below it is
\* 2^(s - j - 52) with s the value of this operator.
HalfUlpExp(n, j) ==
    LET e == Log2Floor(n)
    IN  j + e - 1 - (IF n = Pow2(e) THEN 1 ELSE 0)

\* x <= y * 2^s for 0 <= x < 2^30: x is divided, rounding up, so that no
\* product leaves the machine integers.
LeScaled(x, y, s) ==
    IF s >= 30 THEN (IF x > 0 THEN 1 ELSE 0) <= y
    ELSE IF s >= 0 THEN (x + Pow2(s) - 1) \div Pow2(s) <= y
    ELSE x * Pow2(0 - s) <= y

\* int(h * (a / b)): the product is exact unless b divides h*a, and then the
\* rounding error of a/b decides whether the product falls below the integer.
IntMulRatio(h, a, b) ==
    LET n == (h * a) \div b
    IN  IF (h * a) % b # 0 THEN n
        ELSE LET err == RoundErr(a, b)
             IN  IF err >= 0 THEN n
                 ELSE IF LeScaled(h * (0 - err), b, HalfUlpExp(n, BinExp(a, b)))
                      THEN n ELSE n - 1

\* int(w / (a / b))
IntDivRatio(w, a, b) ==
    LET n == (w * b) \div a
    IN  IF (w * b) % a # 0 THEN n
        ELSE LET err == RoundErr(a, b)
             IN  IF err <= 0 THEN n
                 ELSE IF LeScaled(n * err, a, HalfUlpExp(n, BinExp(a, b)))
                      THEN n ELSE n - 1

\* img_ratio > target_ratio: rounding is monotone and two different fractions
\* of image sizes are more than one double apart, so the floats compare as
\* the fractions do.
RatioGreater(ow, oh, width, height) == ow * height > width * oh

(***************************************************************************)
(* create-responsive-images.py                                             *)
(***************************************************************************)
\* A size label is the string of its decimal digits.
RECURSIVE DecimalValue(_)
DecimalValue(s) ==
    IF s = <<>> THEN 0 ELSE 10 * DecimalValue(SubSeq(s, 1, Len(s) - 1)) + s[Len(s)]

Bucket(label, w, h) == [label |-> label, width |-> w, height |-> h]

\* The sizes dict of create_responsive_images, in insertion order.
sizes ==
    [hero    |-> << Bucket(<<4,0,0>>, 400, 500), Bucket(<<8,0,0>>, 800, 1000),
                    Bucket(<<1,2,0,0>>, 1200, 1500), Bucket(<<1,6,0,0>>, 1600, 2000) >>,
     card    |-> << Bucket(<<3,0,0>>, 300, 225), Bucket(<<6,0,0>>, 600, 450) >>,
     process |-> << Bucket(<<4,0,0>>, 400, 300), Bucket(<<8,0,0>>, 800, 600) >>,
     gallery |-> << Bucket(<<3,0,0>>, 300, 300), Bucket(<<6,0,0>>, 600, 600),
                    Bucket(<<1,2,0,0>>, 1200, 900) >>]

sizes_map_short ==
    [hero    |-> << <<4,0,0>>, <<8,0,0>>, <<1,2,0,0>>, <<1,6,0,0>> >>,
     card    |-> << <<3,0,0>>, <<6,0,0>> >>,
     process |-> << <<4,0,0>>, <<8,0,0>> >>,
     gallery |-> << <<3,0,0>>, <<6,0,0>> >>]

\* The sizes_map of generate_picture_element.
sizes_map ==
    [hero    |-> << <<4,0,0>>, <<8,0,0>>, <<1,2,0,0>>, <<1,6,0,0>> >>,
     card    |-> << <<3,0,0>>, <<6,0,0>> >>,
     process |-> << <<4,0,0>>, <<8,0,0>> >>,
     gallery |-> << <<3,0,0>>, <<6,0,0>>, <<1,2,0,0>> >>]

Profiles == {"hero", "card", "process", "gallery"}

ScaledSizeFitInside(ow, oh, width, height) ==
    IF RatioGreater(ow, oh, width, height)
    THEN <<width, IntDivRatio(width, ow, oh)>>
    ELSE <<IntMulRatio(height, ow, oh), height>>

\* (new_width, new_height): the aspect-preserving size before the crop.
ScaledSize(ow, oh, width, height) ==
    IF RatioGreater(ow, oh, width, height)
    THEN <<IntMulRatio(height, ow, oh), height>>
    ELSE <<width, IntDivRatio(width, ow, oh)>>

CropBoxSymmetric(new_width, new_height, width, height) ==
    LET left == (new_width - width) \div 2
        top == (new_height - height) \div 2
    IN  [left |-> left, top |-> top,
         right |-> new_width - left, bottom |-> new_height - top]

\* (left, top, right, bottom) of the centre crop; \div floors as // does.
CropBox(new_width, new_height, width, height) ==
    LET left == (new_width - width) \div 2
        top == (new_height - height) \div 2
    IN  [left |-> left, top |-> top, right |-> left + width, bottom |-> top + height]

\* One iteration's computation: resize, then crop when the size differs.  An
\* image cropped to a box has the box's size.
Variant(ow, oh, width, height) ==
    LET new == ScaledSize(ow, oh, width, height)
        cropped == new[1] # width \/ new[2] # height
        box == IF cropped THEN CropBox(new[1], new[2], width, height)
               ELSE [left |-> 0, top |-> 0, right |-> new[1], bottom |-> new[2]]
    IN  [width |-> width, height |-> height,
         new_width |-> new[1], new_height |-> new[2],
         cropped |-> cropped, box |-> box,
         out_width |-> box.right - box.left, out_height |-> box.bottom - box.top]

NoCalc == [width |-> 0, height |-> 0, new_width |-> 0, new_height |-> 0,
           cropped |-> FALSE,
           box |-> [left |-> 0, top |-> 0, right |-> 0, bottom |-> 0],
           out_width |-> 0, out_height |-> 0]

File(label, ext, w, h) == [label |-> label, ext |-> ext, width |-> w, height |-> h]

NoMarkup == [made |-> FALSE, src |-> <<>>, webp_srcset |-> <<>>, jpg_srcset |-> <<>>]

RespIdle ==
    /\ rpc = "idle" /\ readable = FALSE
    /\ original_width = 1 /\ original_height = 1
    /\ image_type = "hero" /\ dir_exists = FALSE /\ dir_created = FALSE
    /\ idx = 0 /\ calc = NoCalc /\ files = {} /\ markup = NoMarkup

ConvIdle ==
    /\ cpc = "idle" /\ dir_present = FALSE /\ jpgs = <<>> /\ webps = <<>>
    /\ now = 1 /\ run = 0 /\ jpg_files = <<>> /\ pos = 0
    /\ converted_count = 0 /\ log = <<>> /\ summary = <<>>

SiteIdle ==
    /\ spc = "idle" /\ json_state = "missing" /\ recipes = <<>> /\ ridx = 0
    /\ entries = <<>> /\ sitemap_file = [state |-> "absent", entries |-> <<>>]

\* The caller passes any name; the command line admits the four profiles only.
ImageTypes == Profiles \cup {"banner"}

InitResp ==
    /\ rpc = "makedirs"
    /\ readable \in BOOLEAN
    /\ original_width \in SourceDims
    /\ original_height \in SourceDims
    /\ image_type \in ImageTypes
    /\ dir_exists \in BOOLEAN
    /\ dir_created = FALSE
    /\ idx = 0 /\ calc = NoCalc /\ files = {} /\ markup = NoMarkup
    /\ ConvIdle /\ SiteIdle

\* line 49: os.makedirs(recipe_dir, exist_ok=True)
MakeDirs ==
    /\ rpc = "makedirs"
    /\ dir_exists' = TRUE
    /\ dir_created' = ~dir_exists
    /\ rpc' = "open"
    /\ UNCHANGED <<readable, original_width, original_height, image_type,
                   idx, calc, files, markup>>
    /\ UNCHANGED <<convVars, siteVars>>

\* lines 52-61: Image.open raises on an unreadable source.
OpenImage ==
    /\ rpc = "open"
    /\ rpc' = IF readable THEN "lookup" ELSE "failed"
    /\ UNCHANGED <<readable, original_width, original_height, image_type,
                   dir_exists, dir_created, idx, calc, files, markup>>
    /\ UNCHANGED <<convVars, siteVars>>

\* line 64: sizes[image_type] raises KeyError on an unknown profile.
LookupSizes ==
    /\ rpc = "lookup"
    /\ IF image_type \in DOMAIN sizes
       THEN rpc' = "loop" /\ idx' = 1
       ELSE rpc' = "failed" /\ idx' = idx
    /\ UNCHANGED <<readable, original_width, original_height, image_type,
                   dir_exists, dir_created, calc, files, markup>>
    /\ UNCHANGED <<convVars, siteVars>>

\* lines 64-97, one iteration: both files of the bucket are saved.
CreateVariant ==
    /\ rpc = "loop"
    /\ idx <= Len(sizes[image_type])
    /\ LET b == sizes[image_type][idx]
           v == Variant(original_width, original_height, b.width, b.height)
       IN  /\ calc' = v
           /\ files' = files \cup {File(b.label, "jpg", v.out_width, v.out_height),
                                   File(b.label, "webp", v.out_width, v.out_height)}
    /\ idx' = idx + 1
    /\ UNCHANGED <<rpc, readable, original_width, original_height, image_type,
                   dir_exists, dir_created, markup>>
    /\ UNCHANGED <<convVars, siteVars>>

\* lines 91 and 96: a save raises (disk full, no permission); the JPEG of the
\* bucket is already on disk when the WebP save is the one that fails.
SaveFails ==
    /\ rpc = "loop"
    /\ idx <= Len(sizes[image_type])
    /\ \E at \in {"jpg", "webp"} :
         LET b == sizes[image_type][idx]
             v == Variant(original_width, original_height, b.width, b.height)
         IN  /\ calc' = v
             /\ files' = IF at = "webp"
                         THEN files \cup {File(b.label, "jpg", v.out_width, v.out_height)}
                         ELSE files
    /\ rpc' = "failed"
    /\ UNCHANGED <<readable, original_width, original_height, image_type,
                   dir_exists, dir_created, idx, markup>>
    /\ UNCHANGED <<convVars, siteVars>>

\* the loop is exhausted and create_responsive_images returns
ReturnCreate ==
    /\ rpc = "loop"
    /\ idx > Len(sizes[image_type])
    /\ rpc' = "created"
    /\ UNCHANGED <<readable, original_width, original_height, image_type,
                   dir_exists, dir_created, idx, calc, files, markup>>
    /\ UNCHANGED <<convVars, siteVars>>

Url(label, ext) == [label |-> label, ext |-> ext]
Candidate(label, ext) == [url |-> Url(label, ext), descriptor |-> label]

FallbackFirst(labels) == labels[1]

\* line 135: sizes[-1]
Fallback(labels) == labels[Len(labels)]

\* lines 109-148: the srcset lists and the src attribute of the markup
PictureElement(type) ==
    LET labels == sizes_map[type]
    IN  [made |-> TRUE,
         src |-> <<Url(Fallback(labels), "jpg")>>,
         webp_srcset |-> [i \in 1..Len(labels) |-> Candidate(labels[i], "webp")],
         jpg_srcset |-> [i \in 1..Len(labels) |-> Candidate(labels[i], "jpg")]]

\* lines 163-172: the script prints the markup of the profile it just produced.
GeneratePicture ==
    /\ rpc = "created"
    /\ markup' = PictureElement(image_type)
    /\ rpc' = "done"
    /\ UNCHANGED <<readable, original_width, original_height, image_type,
                   dir_exists, dir_created, idx, calc, files>>
    /\ UNCHANGED <<convVars, siteVars>>

NextResp ==
    \/ MakeDirs
    \/ OpenImage
    \/ LookupSizes
    \/ CreateVariant
    \/ SaveFails
    \/ ReturnCreate
    \/ GeneratePicture

SpecResp == InitResp /\ [][NextResp]_vars

(***************************************************************************)
(* convert-to-webp.py                                                      *)
(***************************************************************************)
\* main is run once, and once again on the same directory
Runs == 1..2

Name(stem, ext) == [stem |-> stem, ext |-> ext]

\* The file names the directory may hold beside the outputs.
DirNames == {Name("a", "jpg"), Name("b", "JPG"), Name("c", "jpeg")}
Stems == {n.stem : n \in DirNames}

\* What decoding and encoding a source does, the same at every attempt:
\* "ok", "undecodable" (Image.open raises), "unsavable" (img.save raises).
Kinds == {"ok", "undecodable", "unsavable"}

\* str.lower on an extension
Lower(ext) == IF ext = "JPG" THEN "jpg" ELSE IF ext = "JPEG" THEN "jpeg" ELSE ext

\* line 43: f.lower().endswith('.jpg')
IsJpg(f) == Lower(f.ext) = "jpg"

\* line 53: jpg_file.rsplit('.', 1)[0] + '.webp', as the stem of the output
WebpOf(f) == f.stem

IsNotOlder(w, f) == w[WebpOf(f)] # 0 /\ w[WebpOf(f)] >= jpgs[f].mtime

\* line 57: the output exists and its mtime is greater than the source's
\* (an absent output has mtime 0 here)
IsNewer(w, f) == w[WebpOf(f)] # 0 /\ w[WebpOf(f)] > jpgs[f].mtime

Uncaught == "aborted"

\* lines 29-30: except Exception prints the error and convert_jpg_to_webp
\* returns to the loop
Caught == "loop"

\* every order os.listdir may return the files in
Orders(S) == {q \in [1..Cardinality(S) -> S] : \A i, j \in 1..Cardinality(S) : i # j => q[i] # q[j]}

Entry(f, outcome) == [file |-> f, outcome |-> outcome]

InitConv ==
    /\ cpc = "start"
    /\ dir_present \in BOOLEAN
    /\ \E D \in SUBSET DirNames :
          /\ (~dir_present => D = {})
          /\ jpgs \in [D -> [mtime : 1..MaxTime, kind : Kinds]]
    /\ webps \in [Stems -> 0..MaxTime]
    /\ \A st \in Stems : webps[st] # 0 => \E f \in DOMAIN jpgs : IsJpg(f) /\ f.stem = st
    /\ \A f \in DOMAIN jpgs : ~IsJpg(f) => (jpgs[f].mtime = 1 /\ jpgs[f].kind = "ok")
    /\ now \in 1..MaxTime
    /\ run = 1
    /\ jpg_files = <<>> /\ pos = 0 /\ converted_count = 0
    /\ log = <<>> /\ summary = <<>>
    /\ RespIdle /\ SiteIdle

\* lines 36-38
CheckDir ==
    /\ cpc = "start"
    /\ cpc' = IF dir_present THEN "list" ELSE "returned"
    /\ UNCHANGED <<dir_present, jpgs, webps, now, run, jpg_files, pos,
                   converted_count, log, summary>>
    /\ UNCHANGED <<respVars, siteVars>>

\* lines 43-49
ListDir ==
    /\ cpc = "list"
    /\ jpg_files' \in Orders({f \in DOMAIN jpgs : IsJpg(f)})
    /\ IF jpg_files' = <<>>
       THEN cpc' = "returned" /\ pos' = pos
       ELSE cpc' = "loop" /\ pos' = 1
    /\ converted_count' = 0
    /\ UNCHANGED <<dir_present, jpgs, webps, now, run, log, summary>>
    /\ UNCHANGED <<respVars, siteVars>>

\* lines 51-59: the output is newer, the file is skipped
SkipFile ==
    /\ cpc = "loop"
    /\ pos <= Len(jpg_files)
    /\ IsNewer(webps, jpg_files[pos])
    /\ log' = Append(log, Entry(jpg_files[pos], "skipped"))
    /\ pos' = pos + 1
    /\ UNCHANGED <<cpc, dir_present, jpgs, webps, now, run, jpg_files,
                   converted_count, summary>>
    /\ UNCHANGED <<respVars, siteVars>>

\* lines 51-62 with convert_jpg_to_webp (lines 10-30): the file is passed to
\* the conversion, which writes the output or prints the error, and counted.
\* A save that raises leaves the file it opened or removes it, as the
\* imaging library's version does.
ConvertFile ==
    /\ cpc = "loop"
    /\ pos <= Len(jpg_files)
    /\ ~IsNewer(webps, jpg_files[pos])
    /\ LET f == jpg_files[pos]
       IN  \/ /\ jpgs[f].kind = "ok"
              /\ webps' = [webps EXCEPT ![WebpOf(f)] = now]
              /\ log' = Append(log, Entry(f, "converted"))
              /\ cpc' = "loop"
           \/ /\ jpgs[f].kind = "undecodable"
              /\ webps' = webps
              /\ log' = Append(log, Entry(f, "error"))
              /\ cpc' = Caught
           \/ /\ jpgs[f].kind = "unsavable"
              /\ \E left \in {0, now} : webps' = [webps EXCEPT ![WebpOf(f)] = left]
              /\ log' = Append(log, Entry(f, "error"))
              /\ cpc' = Caught
    /\ converted_count' = converted_count + 1
    /\ pos' = pos + 1
    /\ UNCHANGED <<dir_present, jpgs, now, run, jpg_files, summary>>
    /\ UNCHANGED <<respVars, siteVars>>

\* line 64: the final summary, recorded with the directory's outputs
PrintSummary ==
    /\ cpc = "loop"
    /\ pos > Len(jpg_files)
    /\ summary' = Append(summary, [count |-> converted_count, log |-> log,
                                   jpg_files |-> jpg_files, webps |-> webps])
    /\ cpc' = "done"
    /\ UNCHANGED <<dir_present, jpgs, webps, now, run, jpg_files, pos,
                   converted_count, log>>
    /\ UNCHANGED <<respVars, siteVars>>

\* the user runs the script again, no source touched in between
Rerun ==
    /\ cpc \in {"done", "returned"}
    /\ run + 1 \in Runs
    /\ run' = run + 1
    /\ cpc' = "start"
    /\ jpg_files' = <<>> /\ pos' = 0 /\ converted_count' = 0 /\ log' = <<>>
    /\ UNCHANGED <<dir_present, jpgs, webps, now, summary>>
    /\ UNCHANGED <<respVars, siteVars>>

\* the clock advances
Tick ==
    /\ now < MaxTime
    /\ now' = now + 1
    /\ UNCHANGED <<cpc, dir_present, jpgs, webps, run, jpg_files, pos,
                   converted_count, log, summary>>
    /\ UNCHANGED <<respVars, siteVars>>

MainStep == CheckDir \/ ListDir \/ SkipFile \/ ConvertFile \/ PrintSummary

NextConv ==
    \/ CheckDir
    \/ ListDir
    \/ SkipFile
    \/ ConvertFile
    \/ PrintSummary
    \/ Rerun
    \/ Tick

SpecConv == InitConv /\ [][NextConv]_vars

\* The script is one sequential process: a step that can be taken is taken.
FairConv == SpecConv /\ WF_vars(MainStep)

(***************************************************************************)
(* generate-sitemap.py                                                     *)
(***************************************************************************)
BASE_URL == "https://yourwellnessgirly.com"
\* date.today().isoformat(), the date of the run
TODAY == "<today>"
\* a key the JSON object does not have
Absent == "<absent>"

Page(loc, changefreq, priority, lastmod) ==
    [loc |-> loc, changefreq |-> changefreq, priority |-> priority, lastmod |-> lastmod]

STATIC_PAGES ==
    << Page("/", "weekly", "1.0", TODAY),
       Page("/recipe-index", "weekly", "0.9", TODAY),
       Page("/about", "monthly", "0.8", "2025-01-10"),
       Page("/work-with-me", "monthly", "0.7", "2025-01-10"),
       Page("/contact", "monthly", "0.6", "2025-01-10") >>

\* lines 39-47; loc is the concatenation of its parts
build_url_entry(loc, lastmod, changefreq, priority) ==
    [kind |-> "url", loc |-> <<BASE_URL>> \o loc, lastmod |-> lastmod,
     changefreq |-> changefreq, priority |-> priority]

Comment(text) ==
    [kind |-> "comment", loc |-> <<text>>, lastmod |-> "", changefreq |-> "",
     priority |-> ""]

\* The values a recipe object may hold under each key: none, an empty one, or
\* a string.
SlugValues == {Absent, "brownie-batter-bars", "mango-yogurt-bites"}
ModifiedValues == {Absent, "", "2025-03-02"}
PublishedValues == {Absent, "", "2024-11-20"}
RecipeRecords ==
    [slug : SlugValues, dateModified : ModifiedValues, datePublished : PublishedValues]

RECURSIVE SeqsUpTo(_, _)
SeqsUpTo(S, n) ==
    IF n = 0 THEN {<<>>}
    ELSE LET shorter == SeqsUpTo(S, n - 1)
         IN  shorter \cup {Append(q, x) : q \in {t \in shorter : Len(t) = n - 1}, x \in S}

\* recipe.get(key): None for a missing key, and `or` passes over None and ''
Truthy(v) == v # Absent /\ v # ""

LastmodPublishedFirst(recipe) ==
    IF Truthy(recipe.datePublished) THEN recipe.datePublished
    ELSE IF Truthy(recipe.dateModified) THEN recipe.dateModified
    ELSE TODAY

\* line 67
Lastmod(recipe) ==
    IF Truthy(recipe.dateModified) THEN recipe.dateModified
    ELSE IF Truthy(recipe.datePublished) THEN recipe.datePublished
    ELSE TODAY

SlugDefaulted(recipe) == FALSE

\* line 66: recipe["slug"] raises KeyError when the key is missing
SlugMissing(recipe) == recipe.slug = Absent

InitSitemap ==
    /\ spc = "load"
    /\ json_state \in {"missing", "malformed", "norecipes", "ok"}
    /\ recipes \in SeqsUpTo(RecipeRecords, MaxRecipes)
    /\ (json_state # "ok" => recipes = <<>>)
    /\ ridx = 0
    /\ entries = <<>>
    /\ sitemap_file \in {[state |-> "absent", entries |-> <<>>],
                         [state |-> "old", entries |-> <<>>]}
    /\ RespIdle /\ ConvIdle

\* lines 51-52: open raises on a missing file, json.load on a malformed one
LoadJson ==
    /\ spc = "load"
    /\ spc' = IF json_state \in {"missing", "malformed"} THEN "failed" ELSE "static"
    /\ UNCHANGED <<json_state, recipes, ridx, entries, sitemap_file>>
    /\ UNCHANGED <<respVars, convVars>>

\* lines 54-64
StaticPages ==
    /\ spc = "static"
    /\ entries' = <<Comment("Main pages")>>
                  \o [i \in 1..Len(STATIC_PAGES) |->
                        build_url_entry(<<STATIC_PAGES[i].loc>>, STATIC_PAGES[i].lastmod,
                                        STATIC_PAGES[i].changefreq, STATIC_PAGES[i].priority)]
                  \o <<Comment("Recipe pages")>>
    /\ spc' = "iterate"
    /\ UNCHANGED <<json_state, recipes, ridx, sitemap_file>>
    /\ UNCHANGED <<respVars, convVars>>

\* line 65: data["recipes"] raises KeyError when the key is missing
StartRecipes ==
    /\ spc = "iterate"
    /\ IF json_state = "norecipes"
       THEN spc' = "failed" /\ ridx' = ridx
       ELSE spc' = "recipes" /\ ridx' = 1
    /\ UNCHANGED <<json_state, recipes, entries, sitemap_file>>
    /\ UNCHANGED <<respVars, convVars>>

\* lines 65-70, one recipe
AddRecipe ==
    /\ spc = "recipes"
    /\ ridx <= Len(recipes)
    /\ LET recipe == recipes[ridx]
       IN  IF SlugMissing(recipe)
           THEN spc' = "failed" /\ entries' = entries /\ ridx' = ridx
           ELSE /\ entries' = Append(entries,
                        build_url_entry(<<"/recipes/", recipe.slug>>, Lastmod(recipe),
                                        "monthly", "0.8"))
                /\ ridx' = ridx + 1
                /\ spc' = spc
    /\ UNCHANGED <<json_state, recipes, sitemap_file>>
    /\ UNCHANGED <<respVars, convVars>>

\* lines 72-80: the document is written once the loop is over
WriteSitemap ==
    /\ spc = "recipes"
    /\ ridx > Len(recipes)
    /\ sitemap_file' = [state |-> "written", entries |-> entries]
    /\ spc' = "done"
    /\ UNCHANGED <<json_state, recipes, ridx, entries>>
    /\ UNCHANGED <<respVars, convVars>>

NextSitemap ==
    \/ LoadJson
    \/ StaticPages
    \/ StartRecipes
    \/ AddRecipe
    \/ WriteSitemap

SpecSitemap == InitSitemap /\ [][NextSitemap]_vars

(***************************************************************************)
(* Properties of create-responsive-images.py                               *)
(***************************************************************************)
Buckets(type) == sizes[type]
BucketLabels(type) == [i \in 1..Len(sizes[type]) |-> sizes[type][i].label]

\* C1: every variant file on disk has exactly the pixel size (W, H) of the
\* size bucket of its label, for every source size and every profile.
C1_VariantHasTargetSize ==
    \A f \in files :
        /\ image_type \in DOMAIN sizes
        /\ \E i \in 1..Len(Buckets(image_type)) :
               /\ Buckets(image_type)[i].label = f.label
               /\ f.width = Buckets(image_type)[i].width
               /\ f.height = Buckets(image_type)[i].height

\* The spec's example: a 1000x800 source under the hero profile is scaled to
\* 2500x2000 for the last bucket, cropped from left 450, and all eight files exist.
C1_Witness ==
    /\ rpc = "done"
    /\ original_width = 1000 /\ original_height = 800 /\ image_type = "hero"
    /\ calc.cropped /\ calc.new_width = 2500 /\ calc.box.left = 450
    /\ Cardinality(files) = 8

\* C2: the scaled size computed before the crop covers the target in both
\* directions, so the crop window lies inside the scaled image.
C2_ScaledCoversTarget ==
    calc # NoCalc =>
        /\ calc.new_width >= calc.width
        /\ calc.new_height >= calc.height
        /\ calc.box.left >= 0 /\ calc.box.top >= 0
        /\ calc.box.right <= calc.new_width
        /\ calc.box.bottom <= calc.new_height

\* A 1x75 source: 400 / (1/75) is 29999.99... in floats, one below the exact
\* quotient, and the crop is taken from the 400x29999 image.
C2_Witness ==
    /\ original_width = 1 /\ original_height = 75
    /\ calc.width = 400 /\ calc.new_width = 400 /\ calc.new_height = 29999
    /\ calc.cropped /\ calc.box.top > 0

\* C6: a failed run leaves no partial output: neither a directory it created
\* nor a variant file.
C6_NoPartialOutput ==
    rpc = "failed" => (~dir_created /\ files = {})

RECURSIVE MaxLabel(_)
MaxLabel(labels) ==
    IF Len(labels) = 1 THEN labels[1]
    ELSE LET m == MaxLabel(Tail(labels))
         IN  IF DecimalValue(labels[1]) >= DecimalValue(m) THEN labels[1] ELSE m

\* C8: the src attribute names the JPEG of the numerically largest label of
\* the profile, and both srcsets list the profile's labels in the profile's
\* order, each entry pairing the file of a label with the descriptor <label>w.
C8_PictureElement ==
    markup.made =>
        LET labels == sizes_map[image_type]
        IN  /\ markup.src = <<Url(MaxLabel(labels), "jpg")>>
            /\ Len(markup.webp_srcset) = Len(labels)
            /\ Len(markup.jpg_srcset) = Len(labels)
            /\ \A i \in 1..Len(labels) :
                   /\ markup.webp_srcset[i] = Candidate(labels[i], "webp")
                   /\ markup.jpg_srcset[i] = Candidate(labels[i], "jpg")
                   /\ markup.webp_srcset[i].descriptor = markup.jpg_srcset[i].descriptor

C8_Witness ==
    /\ markup.made /\ image_type = "gallery"
    /\ markup.src = <<Url(<<1,2,0,0>>, "jpg")>>
    /\ Len(markup.jpg_srcset) = 3

\* C10: the two size tables agree: the labels of the markup are the labels of
\* the buckets, in order, each label is its bucket's width, and so every
\* srcset entry of the markup names a file on disk of that pixel width.
C10_TablesAgree ==
    /\ image_type \in Profiles =>
          /\ BucketLabels(image_type) = sizes_map[image_type]
          /\ \A i \in 1..Len(Buckets(image_type)) :
                 DecimalValue(Buckets(image_type)[i].label) = Buckets(image_type)[i].width
    /\ markup.made =>
          /\ \A i \in 1..Len(markup.webp_srcset) :
                 \A c \in {markup.webp_srcset[i], markup.jpg_srcset[i]} :
                     \E f \in files : /\ f.label = c.url.label /\ f.ext = c.url.ext
                                      /\ f.width = DecimalValue(c.descriptor)
          /\ \A f \in files :
                 \E i \in 1..Len(markup.webp_srcset) :
                     f.label = markup.webp_srcset[i].url.label

C10_Witness ==
    /\ rpc = "done" /\ image_type = "gallery" /\ markup.made
    /\ Cardinality(files) = 6
    /\ \E f \in files : f.label = <<1,2,0,0>> /\ f.width = 1200 /\ f.ext = "webp"

(***************************************************************************)
(* Properties of convert-to-webp.py                                        *)
(***************************************************************************)
Outcomes(l) == {l[i].outcome : i \in 1..Len(l)}
Count(l, outcome) == Cardinality({i \in 1..Len(l) : l[i].outcome = outcome})

\* C3 as stated: the second of two runs converts nothing and skips every
\* JPG, whatever the directory holds.
C3_SecondRunConvertsNothing ==
    Len(summary) >= 2 =>
        /\ summary[2].count = 0
        /\ Outcomes(summary[2].log) \subseteq {"skipped"}

\* After a run, every listed JPG has an output strictly newer than itself.
AllOutputsNewer(r) ==
    \A i \in 1..Len(r.jpg_files) :
        LET f == r.jpg_files[i]
        IN  r.webps[f.stem] # 0 /\ r.webps[f.stem] > jpgs[f].mtime

\* C3 amended: the second run converts nothing and skips every JPG exactly
\* when the first run left every JPG with an output strictly newer than the
\* source; otherwise (a failed conversion that left no output, an output whose
\* mtime equals the source's) the second run converts again and counts it.
C3_SecondRunConvertsStale ==
    Len(summary) >= 2 =>
        ( (summary[2].count = 0 /\ Outcomes(summary[2].log) = {"skipped"})
          <=> AllOutputsNewer(summary[1]) )

\* Both cases of the amended claim: a first run that converted, then a second
\* run with nothing to do; and a second run that converts again an output
\* written at the source's own modification time.
C3_Witness ==
    /\ Len(summary) = 2
    /\ summary[1].count = 2 /\ Outcomes(summary[1].log) = {"converted"}
    /\ summary[2].count = 0 /\ Len(summary[2].log) = 2

C3_WitnessEqualMtime ==
    /\ Len(summary) = 2
    /\ Outcomes(summary[1].log) = {"converted"}
    /\ summary[2].count > 0
    /\ \E i \in 1..Len(summary[1].jpg_files) :
           summary[1].webps[summary[1].jpg_files[i].stem]
               = jpgs[summary[1].jpg_files[i]].mtime

\* C5: the count printed in the summary is the number of conversions that
\* succeeded; a conversion that raised is not counted.
C5_CountIsSuccesses ==
    \A r \in 1..Len(summary) :
        summary[r].count = Count(summary[r].log, "converted")

\* C9: when the summary is printed every listed .jpg has been visited exactly
\* once, skipped or passed to the conversion, and once the loop is entered
\* the summary is reached, however many conversions fail.
VisitedOnce(r) ==
    /\ Len(r.log) = Cardinality({f \in DOMAIN jpgs : IsJpg(f)})
    /\ \A f \in DOMAIN jpgs :
           Cardinality({i \in 1..Len(r.log) : r.log[i].file = f})
               = (IF IsJpg(f) THEN 1 ELSE 0)
    /\ Outcomes(r.log) \subseteq {"skipped", "converted", "error"}

C9_BatchNeverAborts ==
    /\ [](\A r \in 1..Len(summary) : VisitedOnce(summary[r]))
    /\ [](cpc # "aborted")
    /\ (cpc = "loop" ~> cpc = "done")

\* A run in which every conversion failed and the summary was still printed.
C9_Witness ==
    /\ cpc = "done"
    /\ Len(log) = 2
    /\ Outcomes(log) = {"error"}
    /\ Len(summary) >= 1

(***************************************************************************)
(* Properties of generate-sitemap.py                                       *)
(***************************************************************************)
BadSource ==
    \/ json_state \in {"missing", "malformed", "norecipes"}
    \/ \E i \in 1..Len(recipes) : recipes[i].slug = Absent

\* C4: with a missing or malformed source, no recipes array, or a recipe
\* without slug, the run does not complete and sitemap.xml is never written:
\* it stays absent, or as it was.
C4_BadSourceWritesNothing ==
    BadSource => (sitemap_file.state # "written" /\ spc # "done")

\* The second recipe lacks slug: the first was processed, the run failed, and
\* the old sitemap.xml stands.
C4_Witness ==
    /\ spc = "failed"
    /\ Len(recipes) = 2 /\ recipes[1].slug # Absent /\ recipes[2].slug = Absent
    /\ Len(entries) = Len(STATIC_PAGES) + 3
    /\ sitemap_file.state = "old"

UrlEntries(es) == SelectSeq(es, LAMBDA e : e.kind = "url")

\* The written document holds the static pages, then one url per recipe, in
\* input order.
OneUrlPerRecipe(lastmodOf(_)) ==
    LET urls == UrlEntries(sitemap_file.entries)
        n == Len(STATIC_PAGES)
    IN  /\ Len(urls) = n + Len(recipes)
        /\ \A i \in 1..n : urls[i].loc = <<BASE_URL, STATIC_PAGES[i].loc>>
        /\ \A i \in 1..Len(recipes) :
               /\ urls[n + i].loc = <<BASE_URL, "/recipes/", recipes[i].slug>>
               /\ urls[n + i].lastmod = lastmodOf(recipes[i])

PresentFirst(recipe) ==
    IF recipe.dateModified # Absent THEN recipe.dateModified
    ELSE IF recipe.datePublished # Absent THEN recipe.datePublished
    ELSE TODAY

NonEmptyFirst(recipe) ==
    IF recipe.dateModified \notin {Absent, ""} THEN recipe.dateModified
    ELSE IF recipe.datePublished \notin {Absent, ""} THEN recipe.datePublished
    ELSE TODAY

\* C7 as stated: lastmod is dateModified when the key is present, else
\* datePublished when that key is present, else the run date.
C7_LastmodWhenPresent ==
    sitemap_file.state = "written" => OneUrlPerRecipe(PresentFirst)

\* C7 amended: lastmod is dateModified when it is present and not empty, else
\* datePublished when that is present and not empty, else the run date; one
\* url per recipe, in input order, after the static pages.
C7_LastmodWhenNonEmpty ==
    sitemap_file.state = "written" => OneUrlPerRecipe(NonEmptyFirst)

\* Two recipes: one with an empty dateModified, which gets its published
\* date, and one with no date at all, which gets the run date.
C7_Witness ==
    /\ sitemap_file.state = "written"
    /\ Len(recipes) = 2
    /\ recipes[1].dateModified = "" /\ recipes[1].datePublished = "2024-11-20"
    /\ recipes[2].dateModified = Absent /\ recipes[2].datePublished = Absent
    /\ UrlEntries(sitemap_file.entries)[Len(STATIC_PAGES) + 1].lastmod = "2024-11-20"
    /\ UrlEntries(sitemap_file.entries)[Len(STATIC_PAGES) + 2].lastmod = TODAY

====
